---- MODULE Spec2Model ----
(***************************************************************************)
(* Model of the contact reconciliation scripts:                            *)
(*   merge_salesforce_contacts.py  (Status Resolver, Record Merger)        *)
(*   upload_to_supabase.py         (Batch Synchronizer)                    *)
(*   populate_tags_table.py        (Tag Frequency Deriver)                 *)
(* Python strings are modelled as sequences of one-character strings, so   *)
(* that strip(), lower(), split(), the date-suffix regex and the tag       *)
(* encoding are computed character by character.                           *)
(***************************************************************************)
EXTENDS Integers, Sequences, FiniteSets, TLC

VARIABLES
    pc,             \* which script is running and where it stands
    mcPresent,      \* whether the Marketing Cloud export exists on disk
    mcRows,         \* rows of the Marketing Cloud export (the input file)
    mcPos,          \* number of rows of mcRows the reader has consumed
    email_status,   \* load_marketing_cloud_status: dict email -> status
    contactRows,    \* rows of the Contacts export read so far
    contacts,       \* parse_contacts: dict email -> record
    leadRows,       \* rows of the Leads export read so far
    leads,          \* parse_leads: dict email -> record
    merged_count,   \* parse_leads: leads merged into existing contacts
    output,         \* rows of supabase_import_ready.csv, in file order
    csvRows,        \* rows of the CSV_FILE the uploader is run on
    stdout_encoding,\* the encoding of sys.stdout while the uploader runs
    up_contacts,    \* upload main(): contacts, the list load_csv returned
    up_i,           \* upload main(): the loop variable i
    successful,     \* upload main(): records of the batches that succeeded
    failed,         \* upload main(): records of the batches that failed
    failed_batches, \* upload main(): list of (batch_num, error)
    requests,       \* the POSTs urlopen was called with, and how each ended
    store,          \* rows of the contacts table of the remote store
    run,            \* which run of the uploader on this input this is
    storeAfterFirst,\* the contacts table when the first run ended
    tagList,        \* a record's tags, as write_output receives them
    tags_column,    \* write_output: tags_str, the text of the tags column
    decoded,        \* what parse_tags returns for tags_str
    storedContacts, \* rows of the contacts table the deriver reads (tags only)
    all_contacts,   \* fetch_all_contacts: the rows fetched so far
    offset,         \* fetch_all_contacts: offset of the next page
    tag_counts,     \* count_tags: (tag, count) in order of first occurrence
    ins_i,          \* insert_tags: the loop variable i
    tagRequests,    \* the tag POSTs urlopen was called with, and how each ended
    tagsTable       \* rows of the tags table of the remote store

statusVars == <<mcPresent, mcRows, mcPos, email_status>>

mergeVars == <<contactRows, contacts, leadRows, leads, merged_count, output>>

uploadVars ==
    <<csvRows, stdout_encoding, up_contacts, up_i, successful, failed, failed_batches, requests,
      store, run, storeAfterFirst>>

tagVars == <<tagList, tags_column, decoded>>

deriverVars ==
    <<storedContacts, all_contacts, offset, tag_counts, ins_i, tagRequests, tagsTable>>

vars == <<pc, statusVars, mergeVars, uploadVars, tagVars, deriverVars>>

----------------------------------------------------------------------------
(* Bounds of the model *)

\* longest Marketing Cloud export explored by SpecStatus
MaxStatusRows == 3

\* longest Marketing Cloud export explored by SpecMerge
MaxMergeStatusRows == 2

\* most rows the Contacts export and the Leads export hold together in SpecMerge
MaxCrmRows == 4

\* most rows of a short CSV file the uploader is run on
MaxUploadRows == 2

\* most full batches of a long CSV file the uploader is run on
MaxFullBatches == 2

\* most tags of a list, and most characters of a tag, in SpecTags
MaxTags == 2

MaxTagLen == 2

\* most rows of a short contacts table the deriver reads in SpecDeriver
MaxStoredContacts == 3

\* most full pages of a long contacts table the deriver reads
MaxFullPages == 1

----------------------------------------------------------------------------
(* Strings *)

\* str.strip() with no argument removes these (the whitespace of the model)
IsSpace(c) == c \in {" ", "\n", "\t"}

\* code points of the characters the model uses (Python compares by these)
Ord(c) ==
    CASE c = "\t" -> 9   [] c = "\n" -> 10  [] c = " " -> 32
      [] c = "\"" -> 34  [] c = "," -> 44   [] c = "-" -> 45
      [] c = "0" -> 48   [] c = "1" -> 49   [] c = "2" -> 50
      [] c = "3" -> 51   [] c = "4" -> 52   [] c = "5" -> 53
      [] c = "6" -> 54   [] c = "7" -> 55
      [] c = "8" -> 56   [] c = "9" -> 57   [] c = "@" -> 64
      [] c = "A" -> 65   [] c = "B" -> 66   [] c = "C" -> 67
      [] c = "I" -> 73   [] c = "W" -> 87   [] c = "X" -> 88
      [] c = "Y" -> 89   [] c = "a" -> 97   [] c = "b" -> 98
      [] c = "f" -> 102
      [] c = "x" -> 120  [] c = "{" -> 123  [] c = "}" -> 125
      [] OTHER -> 63

\* str.lower() on one character
LowerChar(c) ==
    CASE c = "A" -> "a" [] c = "B" -> "b" [] c = "C" -> "c" [] c = "I" -> "i"
      [] c = "W" -> "w" [] c = "X" -> "x" [] c = "Y" -> "y" [] OTHER -> c

Lower(s) == [i \in 1..Len(s) |-> LowerChar(s[i])]

RECURSIVE LStrip(_)
LStrip(s) == IF s # <<>> /\ IsSpace(Head(s)) THEN LStrip(Tail(s)) ELSE s

RECURSIVE RStrip(_)
RStrip(s) ==
    IF s # <<>> /\ IsSpace(s[Len(s)]) THEN RStrip(SubSeq(s, 1, Len(s) - 1)) ELSE s

\* str.strip()
Strip(s) == RStrip(LStrip(s))

\* row.get(<email column>, '').strip().lower()
NormalizeEmail(raw) == Lower(Strip(raw))

\* x in list
InSeq(x, seq) == \E i \in 1..Len(seq) : seq[i] = x

----------------------------------------------------------------------------
(* Status Resolver: load_marketing_cloud_status *)

S_Active == <<"A","c","t","i","v","e">>
S_Unsubscribed == <<"U","n","s","u","b","s","c","r","i","b","e","d">>
S_Held == <<"H","e","l","d">>
S_Unknown == <<"U","n","k","n","o","w","n">>

\* the tuple ('Unsubscribed', 'Held') both membership tests use
Suppressing == {S_Unsubscribed, S_Held}

\* raw 'Email Address' cells
McEmails == { <<"a">>, <<" ","A">>, <<"b"," ">> }

\* raw 'Status' cells
McStatuses == { S_Active, S_Unsubscribed, <<" ">> \o S_Held, <<>> }

\* the rows an export is made of; the last one has a blank email cell
McRowSet ==
    [email : McEmails, status : McStatuses]
        \cup {[email |-> <<" ">>, status |-> S_Unsubscribed]}

\* the mapping after one more row of the export (body of the for loop)
StatusStepOverwrite(m, row) ==
    LET email == NormalizeEmail(row.email)
        status == Strip(row.status)
    IN  IF email = <<>> THEN m
        ELSE [e \in DOMAIN m \cup {email} |-> IF e = email THEN status ELSE m[e]]

StatusStep(m, row) ==
    LET email == NormalizeEmail(row.email)
        status == Strip(row.status)
        seen == email \in DOMAIN m
        \* email_status.get(email): None when absent
        existingSuppressing == seen /\ m[email] \in Suppressing
        \* not existing: absent, or the empty string
        notExisting == ~seen \/ m[email] = <<>>
    IN  IF email = <<>> THEN m
        ELSE IF existingSuppressing THEN m
        ELSE IF status \in Suppressing \/ notExisting
             THEN [e \in DOMAIN m \cup {email} |-> IF e = email THEN status ELSE m[e]]
             ELSE m

\* the whole loop over a list of rows
RECURSIVE LoadStatus(_, _)
LoadStatus(m, rows) ==
    IF rows = <<>> THEN m ELSE LoadStatus(StatusStep(m, Head(rows)), Tail(rows))

EmptyMap == [e \in {} |-> <<>>]

SeqsUpTo(S, n) == UNION { [1..k -> S] : k \in 0..n }

\* the Status Resolver when it is not what is being run
StatusIdle ==
    /\ mcPresent = FALSE
    /\ mcRows = <<>>
    /\ mcPos = 0
    /\ email_status = EmptyMap

\* the Record Merger before main() reaches it
MergeIdle ==
    /\ contactRows = <<>>
    /\ contacts = EmptyMap
    /\ leadRows = <<>>
    /\ leads = EmptyMap
    /\ merged_count = 0
    /\ output = <<>>

\* the uploader when it is not the script being run
UploadIdle ==
    /\ csvRows = <<>>
    /\ stdout_encoding = "utf-8"
    /\ up_contacts = <<>>
    /\ up_i = 0
    /\ successful = 0
    /\ failed = 0
    /\ failed_batches = <<>>
    /\ requests = <<>>
    /\ store = <<>>
    /\ run = "first"
    /\ storeAfterFirst = <<>>

\* the tag encoding when it is not what is being run
TagsIdle ==
    /\ tagList = <<>>
    /\ tags_column = <<>>
    /\ decoded = <<>>

\* the deriver when it is not the script being run
DeriverIdle ==
    /\ storedContacts = <<>>
    /\ all_contacts = <<>>
    /\ offset = 0
    /\ tag_counts = <<>>
    /\ ins_i = 0
    /\ tagRequests = <<>>
    /\ tagsTable = <<>>

InitStatus ==
    /\ pc = "status"
    /\ MergeIdle
    /\ UploadIdle
    /\ TagsIdle
    /\ DeriverIdle
    /\ mcPresent \in BOOLEAN
    /\ mcRows \in (IF mcPresent THEN SeqsUpTo(McRowSet, MaxStatusRows) ELSE {<<>>})
    /\ mcPos = 0
    /\ email_status = EmptyMap

\* one iteration of "for row in reader"
LoadStatusRow ==
    /\ pc = "status"
    /\ mcPresent
    /\ mcPos < Len(mcRows)
    /\ email_status' = StatusStep(email_status, mcRows[mcPos + 1])
    /\ mcPos' = mcPos + 1
    /\ UNCHANGED <<pc, mcPresent, mcRows, mergeVars, uploadVars, tagVars, deriverVars>>

\* the reader is exhausted: return email_status
StatusLoaded ==
    /\ pc = "status"
    /\ mcPresent
    /\ mcPos = Len(mcRows)
    /\ pc' = "contacts"
    /\ UNCHANGED <<statusVars, mergeVars, uploadVars, tagVars, deriverVars>>

\* open() raises FileNotFoundError: a warning, and the empty mapping is returned
StatusFileMissing ==
    /\ pc = "status"
    /\ ~mcPresent
    /\ pc' = "contacts"
    /\ UNCHANGED <<statusVars, mergeVars, uploadVars, tagVars, deriverVars>>

NextStatus == LoadStatusRow \/ StatusLoaded \/ StatusFileMissing

SpecStatus == InitStatus /\ [][NextStatus]_vars

----------------------------------------------------------------------------
(* Tag History Parser: parse_source_code_history *)

IsDigit(c) == c \in {"0", "1", "2", "3", "4", "5", "6", "7", "8", "9"}

\* s[k..k+9] matches \d{4}-\d{2}-\d{2}
DateAt(s, k) ==
    /\ k + 9 <= Len(s)
    /\ \A d \in {0, 1, 2, 3, 5, 6, 8, 9} : IsDigit(s[k + d])
    /\ s[k + 4] = "-"
    /\ s[k + 7] = "-"

AllSpace(s, i, j) == \A x \in i..j : IsSpace(s[x])

\* the pattern \s*@\s*\d{4}-\d{2}-\d{2}.*$ matches s from position i on
\* (s is one line: '.*$' then always reaches the end of s)
DateSuffixAt(s, i) ==
    \E j \in i..Len(s) :
        /\ AllSpace(s, i, j - 1)
        /\ s[j] = "@"
        /\ \E k \in (j + 1)..Len(s) : AllSpace(s, j + 1, k - 1) /\ DateAt(s, k)

\* re.sub(pattern, '', line): the leftmost match is removed, and it runs to
\* the end of the line
StripDateSuffix(s) ==
    IF \E i \in 1..Len(s) : DateSuffixAt(s, i)
    THEN LET first == CHOOSE i \in 1..Len(s) :
                          /\ DateSuffixAt(s, i)
                          /\ \A h \in 1..(i - 1) : ~DateSuffixAt(s, h)
         IN  SubSeq(s, 1, first - 1)
    ELSE s

\* str.split('\n')
RECURSIVE SplitLines(_)
SplitLines(s) ==
    IF \E i \in 1..Len(s) : s[i] = "\n"
    THEN LET nl == CHOOSE i \in 1..Len(s) :
                       s[i] = "\n" /\ \A h \in 1..(i - 1) : s[h] # "\n"
         IN  <<SubSeq(s, 1, nl - 1)>> \o SplitLines(SubSeq(s, nl + 1, Len(s)))
    ELSE <<s>>

\* the loop over the lines, tags being the list built so far
RECURSIVE HistoryTags(_, _)
HistoryTags(lines, tags) ==
    IF lines = <<>> THEN tags
    ELSE LET line == Strip(Head(lines))
             tag == Strip(StripDateSuffix(line))
         IN  IF line = <<>> THEN HistoryTags(Tail(lines), tags)
             ELSE IF tag # <<>> /\ ~InSeq(tag, tags)
                  THEN HistoryTags(Tail(lines), Append(tags, tag))
                  ELSE HistoryTags(Tail(lines), tags)

parse_source_code_history(history_text) ==
    IF history_text = <<>> THEN <<>>
    ELSE HistoryTags(SplitLines(Strip(history_text)), <<>>)

----------------------------------------------------------------------------
(* Record Merger: parse_contacts, parse_leads, write_output *)

ALCONOX_CLIENT_ID == "ea7f1422-2d20-4299-85a7-c1201e953409"

\* tags of one row: history tags, the main source code in front, the
\* industry at the end, each only when non-empty and not yet there
RowTags(row) ==
    LET history == parse_source_code_history(row.History)
        main_source == Strip(row.SourceCode)
        industry == Strip(row.Industry)
        withSource == IF main_source # <<>> /\ ~InSeq(main_source, history)
                      THEN <<main_source>> \o history
                      ELSE history
    IN  IF industry # <<>> /\ ~InSeq(industry, withSource)
        THEN Append(withSource, industry)
        ELSE withSource

\* email_status.get(email, 'Unknown')
McStatusOf(m, email) == IF email \in DOMAIN m THEN m[email] ELSE S_Unknown

\* the dict built for one row ('Account Name' for a Contact and
\* 'Company / Account' for a Lead are the row's Company; 'Source Code' and
\* 'Source code' its SourceCode)
RowRecordUnsubscribedOnly(row, m, record_type) ==
    LET email == NormalizeEmail(row.Email)
        mc_status == McStatusOf(m, email)
    IN  [email |-> email,
         first_name |-> Strip(row.FirstName),
         last_name |-> Strip(row.LastName),
         company |-> Strip(row.Company),
         source_code |-> Strip(row.SourceCode),
         industry |-> Strip(row.Industry),
         record_type |-> record_type,
         tags |-> RowTags(row),
         unsubscribed |-> (mc_status = S_Unsubscribed),
         mc_status |-> mc_status]

RowRecord(row, m, record_type) ==
    LET email == NormalizeEmail(row.Email)
        mc_status == McStatusOf(m, email)
    IN  [email |-> email,
         first_name |-> Strip(row.FirstName),
         last_name |-> Strip(row.LastName),
         company |-> Strip(row.Company),
         source_code |-> Strip(row.SourceCode),
         industry |-> Strip(row.Industry),
         record_type |-> record_type,
         tags |-> RowTags(row),
         unsubscribed |-> (mc_status \in Suppressing),
         mc_status |-> mc_status]

\* d[key] = value
Put(d, key, value) == [k \in DOMAIN d \cup {key} |-> IF k = key THEN value ELSE d[k]]

\* for tag in tags: if tag not in existing['tags']: existing['tags'].append(tag)
RECURSIVE MergeTagsAppendAll(_, _)
MergeTagsAppendAll(existing, tags) ==
    IF tags = <<>> THEN existing
    ELSE MergeTagsAppendAll(Append(existing, Head(tags)), Tail(tags))

RECURSIVE MergeTags(_, _)
MergeTags(existing, tags) ==
    IF tags = <<>> THEN existing
    ELSE MergeTags(IF InSeq(Head(tags), existing) THEN existing
                   ELSE Append(existing, Head(tags)),
                   Tail(tags))

\* body of the loop of parse_contacts: the contacts dict after one more row
ContactsStepFirstWins(cs, row, m) ==
    LET email == NormalizeEmail(row.Email)
    IN  IF email = <<>> \/ email \in DOMAIN cs THEN cs
        ELSE Put(cs, email, RowRecord(row, m, "contact"))

ContactsStep(cs, row, m) ==
    LET email == NormalizeEmail(row.Email)
    IN  IF email = <<>> THEN cs
        ELSE Put(cs, email, RowRecord(row, m, "contact"))

\* body of the loop of parse_leads: existing_contacts, leads and
\* merged_count after one more row
LeadsStepLastLeadWins(cs, ls, n, row, m) ==
    LET email == NormalizeEmail(row.Email)
        tags == RowTags(row)
    IN  IF email = <<>> THEN [contacts |-> cs, leads |-> ls, merged_count |-> n]
        ELSE IF email \in DOMAIN cs
        THEN [contacts |-> [cs EXCEPT ![email].tags = MergeTags(@, tags)],
              leads |-> ls,
              merged_count |-> n + 1]
        ELSE IF email \in DOMAIN ls
        THEN [contacts |-> cs,
              leads |-> [ls EXCEPT ![email] =
                            [RowRecord(row, m, "lead") EXCEPT
                                !.tags = MergeTags(ls[email].tags, tags)]],
              merged_count |-> n]
        ELSE [contacts |-> cs,
              leads |-> Put(ls, email, RowRecord(row, m, "lead")),
              merged_count |-> n]

LeadsStepNoContactCheck(cs, ls, n, row, m) ==
    LET email == NormalizeEmail(row.Email)
        tags == RowTags(row)
    IN  IF email = <<>> THEN [contacts |-> cs, leads |-> ls, merged_count |-> n]
        ELSE IF email \in DOMAIN ls
        THEN [contacts |-> cs,
              leads |-> [ls EXCEPT ![email].tags = MergeTags(@, tags)],
              merged_count |-> n]
        ELSE [contacts |-> cs,
              leads |-> Put(ls, email, RowRecord(row, m, "lead")),
              merged_count |-> n]

LeadsStep(cs, ls, n, row, m) ==
    LET email == NormalizeEmail(row.Email)
        tags == RowTags(row)
    IN  IF email = <<>> THEN [contacts |-> cs, leads |-> ls, merged_count |-> n]
        ELSE IF email \in DOMAIN cs
        THEN [contacts |-> [cs EXCEPT ![email].tags = MergeTags(@, tags)],
              leads |-> ls,
              merged_count |-> n + 1]
        ELSE IF email \in DOMAIN ls
        THEN [contacts |-> cs,
              leads |-> [ls EXCEPT ![email].tags = MergeTags(@, tags)],
              merged_count |-> n]
        ELSE [contacts |-> cs,
              leads |-> Put(ls, email, RowRecord(row, m, "lead")),
              merged_count |-> n]

\* Python's str <: by code point, a proper prefix first
RECURSIVE StrLess(_, _)
StrLess(s, t) ==
    IF t = <<>> THEN FALSE
    ELSE IF s = <<>> THEN TRUE
    ELSE IF Ord(Head(s)) # Ord(Head(t)) THEN Ord(Head(s)) < Ord(Head(t))
    ELSE StrLess(Tail(s), Tail(t))

\* list(d.values()) sorted by the key 'email'; the keys of a dict are distinct
\* and each record's email is its key, so the insertion order does not show
RECURSIVE SortedValues(_)
SortedValues(d) ==
    IF DOMAIN d = {} THEN <<>>
    ELSE LET least == CHOOSE e \in DOMAIN d :
                          \A f \in DOMAIN d : f = e \/ StrLess(e, f)
         IN  <<d[least]>> \o SortedValues([k \in DOMAIN d \ {least} |-> d[k]])

\* the stable sort of a ++ b, each already sorted: on equal emails the
\* record of a (the contacts) stays in front
RECURSIVE StableMerge(_, _)
StableMerge(a, b) ==
    IF a = <<>> THEN b
    ELSE IF b = <<>> THEN a
    ELSE IF StrLess(Head(b).email, Head(a).email)
         THEN <<Head(b)>> \o StableMerge(a, Tail(b))
         ELSE <<Head(a)>> \o StableMerge(Tail(a), b)

\* ','.join(f'"{t}"' for t in tags)
RECURSIVE JoinQuoted(_)
JoinQuoted(tags) ==
    IF tags = <<>> THEN <<>>
    ELSE <<"\"">> \o Head(tags) \o <<"\"">>
         \o (IF Len(tags) > 1 THEN <<",">> \o JoinQuoted(Tail(tags)) ELSE <<>>)

\* the PostgreSQL array text write_output puts in the tags column
TagsStr(tags) == <<"{">> \o JoinQuoted(tags) \o <<"}">>

\* the row written for one record
OutputRow(record) ==
    [email |-> record.email,
     first_name |-> record.first_name,
     last_name |-> record.last_name,
     company |-> record.company,
     source_code |-> record.source_code,
     industry |-> record.industry,
     record_type |-> record.record_type,
     tags |-> TagsStr(record.tags),
     unsubscribed |-> IF record.unsubscribed THEN "true" ELSE "false",
     client_id |-> ALCONOX_CLIENT_ID]

\* all_records after the sort, as rows
MergedRows(cs, ls) ==
    LET all_records == StableMerge(SortedValues(cs), SortedValues(ls))
    IN  [i \in 1..Len(all_records) |-> OutputRow(all_records[i])]

Date1 == <<"2","0","2","1","-","1","0","-","2","8">>

Date2 == <<"2","0","2","0","-","1","2","-","0","9">>

\* "C @ 2021-10-28\nW\n\n C\nW @ 2020-12-09"
History1 ==
    <<"C"," ","@"," ">> \o Date1 \o <<"\n","W","\n","\n"," ","C","\n","W"," ","@"," ">> \o Date2

\* "@ 2021-10-28\nI @2020-12-09 x\n"
History2 == <<"@"," ">> \o Date1 \o <<"\n","I"," ","@">> \o Date2 \o <<" ","x","\n">>

\* "W\nC @ x"
History3 == <<"W","\n","C"," ","@"," ","x">>

Row(email, first, source, history, industry) ==
    [Email |-> email, FirstName |-> first, LastName |-> <<"L"," ">>,
     Company |-> <<" ","C","o">>, SourceCode |-> source, History |-> history,
     Industry |-> industry]

\* rows of the Contacts export
ContactRowSet ==
    { Row(<<"a">>, <<"X">>, <<"W"," ">>, History1, <<"I">>),
      Row(<<" ","A">>, <<" ","Y">>, <<"B">>, <<>>, <<>>),
      Row(<<" ">>, <<"Y">>, <<"W">>, History3, <<>>) }

\* rows of the Leads export
LeadRowSet ==
    { Row(<<"A"," ">>, <<"Y">>, <<"B">>, History3, <<>>),
      Row(<<"b">>, <<"X">>, <<>>, History2, <<" ","I">>),
      Row(<<" ","b">>, <<"Y">>, <<"C">>, History1, <<>>),
      Row(<<>>, <<"X">>, <<"W">>, <<>>, <<"I">>) }

\* rows of the Marketing Cloud export the merger is run on
MergeMcRowSet ==
    { [email |-> <<" ","A">>, status |-> S_Unsubscribed],
      [email |-> <<"a">>, status |-> S_Active],
      [email |-> <<"b"," ">>, status |-> <<" ">> \o S_Held] }

\* main(): step 1 is about to run
InitMerge ==
    /\ pc = "status"
    /\ mcPresent \in BOOLEAN
    /\ mcRows \in (IF mcPresent THEN SeqsUpTo(MergeMcRowSet, MaxMergeStatusRows)
                   ELSE {<<>>})
    /\ mcPos = 0
    /\ email_status = EmptyMap
    /\ MergeIdle
    /\ UploadIdle
    /\ TagsIdle
    /\ DeriverIdle

\* one iteration of the loop of parse_contacts
ParseContactRow ==
    /\ pc = "contacts"
    /\ Len(contactRows) + Len(leadRows) < MaxCrmRows
    /\ \E row \in ContactRowSet :
        /\ contactRows' = Append(contactRows, row)
        /\ contacts' = ContactsStep(contacts, row, email_status)
    /\ UNCHANGED <<pc, statusVars, leadRows, leads, merged_count, output, uploadVars,
                   tagVars, deriverVars>>

\* the Contacts export is exhausted: parse_contacts returns
ContactsParsed ==
    /\ pc = "contacts"
    /\ pc' = "leads"
    /\ UNCHANGED <<statusVars, mergeVars, uploadVars, tagVars, deriverVars>>

\* one iteration of the loop of parse_leads
ParseLeadRow ==
    /\ pc = "leads"
    /\ Len(contactRows) + Len(leadRows) < MaxCrmRows
    /\ \E row \in LeadRowSet :
        LET after == LeadsStep(contacts, leads, merged_count, row, email_status)
        IN  /\ leadRows' = Append(leadRows, row)
            /\ contacts' = after.contacts
            /\ leads' = after.leads
            /\ merged_count' = after.merged_count
    /\ UNCHANGED <<pc, statusVars, contactRows, output, uploadVars, tagVars, deriverVars>>

\* the Leads export is exhausted: parse_leads returns
LeadsParsed ==
    /\ pc = "leads"
    /\ pc' = "write"
    /\ UNCHANGED <<statusVars, mergeVars, uploadVars, tagVars, deriverVars>>

\* write_output
WriteOutput ==
    /\ pc = "write"
    /\ output' = MergedRows(contacts, leads)
    /\ pc' = "merged"
    /\ UNCHANGED <<statusVars, contactRows, contacts, leadRows, leads, merged_count,
                   uploadVars, tagVars, deriverVars>>

NextMerge ==
    \/ LoadStatusRow
    \/ StatusLoaded
    \/ StatusFileMissing
    \/ ParseContactRow
    \/ ContactsParsed
    \/ ParseLeadRow
    \/ LeadsParsed
    \/ WriteOutput

SpecMerge == InitMerge /\ [][NextMerge]_vars

----------------------------------------------------------------------------
(* Batch Synchronizer: parse_tags, load_csv, upload_batch, main *)

\* records per POST
BATCH_SIZE == 500

\* Python's None; no string of the model, whose elements are single characters
None == <<"None">>

\* str.strip('{}'): braces are removed from both ends
RECURSIVE StripBraces(_)
StripBraces(s) ==
    IF s # <<>> /\ Head(s) \in {"{", "}"} THEN StripBraces(Tail(s))
    ELSE IF s # <<>> /\ s[Len(s)] \in {"{", "}"}
         THEN StripBraces(SubSeq(s, 1, Len(s) - 1))
         ELSE s

\* the loop of parse_tags over the characters left, with its three locals
RECURSIVE ScanTags(_, _, _, _)
ScanTags(chars, tags, current, in_quotes) ==
    IF chars = <<>>
    THEN IF current # <<>> THEN Append(tags, current) ELSE tags
    ELSE LET char == Head(chars)
         IN  IF char = "\""
             THEN ScanTags(Tail(chars), tags, current, ~in_quotes)
             ELSE IF char = "," /\ ~in_quotes
             THEN ScanTags(Tail(chars),
                           IF current # <<>> THEN Append(tags, current) ELSE tags,
                           <<>>, in_quotes)
             ELSE ScanTags(Tail(chars), tags, Append(current, char), in_quotes)

parse_tags(tags_str) ==
    IF tags_str = <<>> \/ tags_str = <<"{", "}">> THEN <<>>
    ELSE LET inner == StripBraces(tags_str)
         IN  IF inner = <<>> THEN <<>> ELSE ScanTags(inner, <<>>, <<>>, FALSE)

\* value or None
OrNone(s) == IF s = <<>> THEN None ELSE s

\* the dict load_csv builds from one row of the file
CsvContact(row) ==
    [email |-> row.email,
     first_name |-> OrNone(row.first_name),
     last_name |-> OrNone(row.last_name),
     company |-> OrNone(row.company),
     source_code |-> OrNone(row.source_code),
     industry |-> OrNone(row.industry),
     record_type |-> IF row.record_type = "" THEN "None" ELSE row.record_type,
     tags |-> parse_tags(row.tags),
     unsubscribed |-> (row.unsubscribed = "true"),
     client_id |-> row.client_id]

load_csv(rows) == [k \in 1..Len(rows) |-> CsvContact(rows[k])]

\* on_conflict=email,client_id
ConflictKey(rec) == <<rec.email, rec.client_id>>

\* the table after a plain insert of the rows of a batch
StoreInsertAll(table, batch) == table \o batch

\* key -> the last index of keys[lo..hi] that carries it (the range is
\* halved so that the evaluation stays shallow on a batch of BATCH_SIZE)
RECURSIVE LastIndexByKey(_, _, _)
LastIndexByKey(keys, lo, hi) ==
    IF lo > hi THEN << >>
    ELSE IF lo = hi THEN keys[lo] :> lo
    ELSE LET mid == (lo + hi) \div 2
         IN  LastIndexByKey(keys, mid + 1, hi) @@ LastIndexByKey(keys, lo, mid)

\* key -> the first index of keys[lo..hi] that carries it
RECURSIVE FirstIndexByKey(_, _, _)
FirstIndexByKey(keys, lo, hi) ==
    IF lo > hi THEN << >>
    ELSE IF lo = hi THEN keys[lo] :> lo
    ELSE LET mid == (lo + hi) \div 2
         IN  FirstIndexByKey(keys, lo, mid) @@ FirstIndexByKey(keys, mid + 1, hi)

\* a table after the upsert of a batch (resolution=merge-duplicates), the
\* conflict keys of its rows and of the batch's records being given: a row
\* whose key is in the batch takes the columns of the last record with that
\* key, the records with a new key become new rows
UpsertRows(table, tableKeys, batch, batchKeys) ==
    LET last == LastIndexByKey(batchKeys, 1, Len(batch))
        first == FirstIndexByKey(batchKeys, 1, Len(batch))
        held == { tableKeys[k] : k \in 1..Len(table) }
        fresh == SelectSeq([j \in 1..Len(batch) |-> j],
                           LAMBDA j : batchKeys[j] \notin held /\ first[batchKeys[j]] = j)
    IN  [k \in 1..Len(table) |->
            IF tableKeys[k] \in DOMAIN last THEN batch[last[tableKeys[k]]] ELSE table[k]]
        \o [n \in 1..Len(fresh) |-> batch[last[batchKeys[fresh[n]]]]]

\* the contacts table after the POST of a batch was carried out
\* (on_conflict=email,client_id)
StoreUpsertAll(table, batch) ==
    UpsertRows(table, [k \in 1..Len(table) |-> ConflictKey(table[k])],
               batch, [j \in 1..Len(batch) |-> ConflictKey(batch[j])])

\* one decimal digit
Digit(d) ==
    CASE d = 0 -> "0" [] d = 1 -> "1" [] d = 2 -> "2" [] d = 3 -> "3"
      [] d = 4 -> "4" [] d = 5 -> "5" [] d = 6 -> "6" [] d = 7 -> "7"
      [] d = 8 -> "8" [] d = 9 -> "9"

\* what an f-string writes for an int n >= 0
RECURSIVE IntStr(_)
IntStr(n) == IF n < 10 THEN <<Digit(n)>> ELSE Append(IntStr(n \div 10), Digit(n % 10))

\* how urlopen can end for one POST
\*   response   urlopen returns a response with this status
\*   HTTPError  urlopen raises HTTPError with this code; text is the body
\*              when it decodes as UTF-8 (decodes), else decode() raises
\*   exception  urlopen raises another exception; text is str(e)
Response(status) ==
    [kind |-> "response", status |-> status, decodes |-> TRUE, text |-> <<>>]

HTTPError(code, decodes, body) ==
    [kind |-> "HTTPError", status |-> code, decodes |-> decodes, text |-> body]

Raised(text) == [kind |-> "exception", status |-> 0, decodes |-> TRUE, text |-> text]

\* b'\xff' is no UTF-8 text; socket.timeout prints as "timed out"
Outcomes ==
    { Response(200), Response(201), Response(204),
      HTTPError(500, TRUE, <<"e", "r", "r">>),
      HTTPError(500, FALSE, <<>>),
      Raised(<<"t", "i", "m", "e", "d", " ", "o", "u", "t">>) }

\* urlopen returned with status 200 or 201
Created(outcome) == outcome.kind = "response" /\ outcome.status \in {200, 201}

\* the store carries the POST out exactly when it answers with a 2xx status
Applied(outcome) == outcome.kind = "response"

\* the encodings sys.stdout can have in the model
Encodings == {"utf-8", "ascii"}

\* str(e) of the UnicodeEncodeError print() raises on an ASCII stdout for
\* the line "  Batch {batch_num}/{total_batches}: Uploaded {n} contacts" and
\* the check mark U+2713 after it: position is the index of the check mark
CheckMarkError(n, batch_num, total_batches) ==
    <<"'", "a", "s", "c", "i", "i", "'", " ", "c", "o", "d", "e", "c", " ", "c", "a",
      "n", "'", "t", " ", "e", "n", "c", "o", "d", "e", " ", "c", "h", "a", "r", "a",
      "c", "t", "e", "r", " ", "'", "\\", "u", "2", "7", "1", "3", "'", " ", "i",
      "n", " ", "p", "o", "s", "i", "t", "i", "o", "n", " ">>
    \o IntStr(30 + Len(IntStr(batch_num)) + Len(IntStr(total_batches)) + Len(IntStr(n)))
    \o <<":", " ", "o", "r", "d", "i", "n", "a", "l", " ", "n", "o", "t", " ", "i", "n",
         " ", "r", "a", "n", "g", "e", "(", "1", "2", "8", ")">>

\* upload_batch(contacts, batch_num, total_batches), batch being its contacts:
\* what it returns, or that an exception leaves it
upload_batch(batch, batch_num, total_batches, outcome, encoding) ==
    IF outcome.kind = "response"
    THEN IF outcome.status \in {200, 201}
         THEN IF encoding = "utf-8"
              THEN [raised |-> FALSE, success |-> TRUE, error |-> None]
              ELSE [raised |-> FALSE, success |-> FALSE,
                    error |-> CheckMarkError(Len(batch), batch_num, total_batches)]
         ELSE [raised |-> FALSE, success |-> FALSE,
               error |-> <<"S", "t", "a", "t", "u", "s", " ">> \o IntStr(outcome.status)]
    ELSE IF outcome.kind = "HTTPError"
    THEN IF outcome.decodes
         THEN [raised |-> FALSE, success |-> FALSE,
               error |-> <<"H", "T", "T", "P", " ">> \o IntStr(outcome.status)
                         \o <<":", " ">> \o outcome.text]
         ELSE [raised |-> TRUE, success |-> FALSE, error |-> <<"UnicodeDecodeError">>]
    ELSE [raised |-> FALSE, success |-> FALSE, error |-> outcome.text]

Min(a, b) == IF a < b THEN a ELSE b

\* contacts[i:i + BATCH_SIZE]
BatchAt(cs, i) == SubSeq(cs, i + 1, Min(i + BATCH_SIZE, Len(cs)))

\* (len(contacts) + BATCH_SIZE - 1) // BATCH_SIZE
TotalBatches(cs) == (Len(cs) + BATCH_SIZE - 1) \div BATCH_SIZE

UploadRecord(email, first, tags, unsub, type) ==
    [email |-> email, first_name |-> first, last_name |-> <<"L">>,
     company |-> <<>>, source_code |-> <<"W">>, industry |-> <<>>,
     record_type |-> type, tags |-> tags, unsubscribed |-> unsub,
     mc_status |-> IF unsub THEN S_Held ELSE S_Unknown]

\* rows write_output can have written, one per email
UploadRowSet ==
    { OutputRow(UploadRecord(<<"a">>, <<"X">>, <<<<"W">>, <<"A", ",", "B">>>>, FALSE, "contact")),
      OutputRow(UploadRecord(<<"a", "a">>, <<>>, <<>>, TRUE, "lead")),
      OutputRow(UploadRecord(<<"b">>, <<"X">>, <<<<"I">>, <<"W">>>>, TRUE, "contact")),
      OutputRow(UploadRecord(<<"b", "a">>, <<"Y">>, <<<<"C">>>>, FALSE, "lead")) }

\* the short files write_output can have written: rows in ascending order
\* of email, no email twice
ShortFiles ==
    { f \in SeqsUpTo(UploadRowSet, MaxUploadRows) :
          \A k \in 1..(Len(f) - 1) : StrLess(f[k].email, f[k + 1].email) }

\* the k-th row of a long file: the first is a Contact, the others are
\* Leads whose emails ascend with k
LongFileRow(k) ==
    IF k = 1
    THEN OutputRow(UploadRecord(<<"a">>, <<"X">>, <<<<"W">>, <<"A", ",", "B">>>>,
                                FALSE, "contact"))
    ELSE OutputRow(UploadRecord(<<"f">> \o IntStr(10000 + k), <<>>, <<<<"W">>>>,
                                k % 2 = 0, "lead"))

\* the long files: one record fewer than, exactly, and one record more than
\* a number of full batches
LongFiles ==
    { [k \in 1..(b * BATCH_SIZE + d) |-> LongFileRow(k)] :
          b \in 1..MaxFullBatches, d \in {-1, 0, 1} }

UploadFiles == ShortFiles \cup LongFiles

\* a row the table may hold from an earlier import
StaleRow ==
    CsvContact(OutputRow(UploadRecord(<<"a">>, <<"Y">>, <<<<"I">>>>, TRUE, "lead")))

\* upload main() is about to run
InitUpload ==
    /\ pc = "up_load"
    /\ StatusIdle
    /\ MergeIdle
    /\ TagsIdle
    /\ DeriverIdle
    /\ csvRows \in UploadFiles
    /\ stdout_encoding \in Encodings
    /\ up_contacts = <<>>
    /\ up_i = 0
    /\ successful = 0
    /\ failed = 0
    /\ failed_batches = <<>>
    /\ requests = <<>>
    /\ store \in {<<>>, <<StaleRow>>}
    /\ run = "first"
    /\ storeAfterFirst = <<>>

\* contacts = load_csv(CSV_FILE), then the counters are set up
LoadCsv ==
    /\ pc = "up_load"
    /\ up_contacts' = load_csv(csvRows)
    /\ up_i' = 0
    /\ successful' = 0
    /\ failed' = 0
    /\ failed_batches' = <<>>
    /\ pc' = "up_batch"
    /\ UNCHANGED <<statusVars, mergeVars, tagVars, deriverVars, csvRows, stdout_encoding,
                   requests, store, run, storeAfterFirst>>

\* one iteration of "for i in range(0, len(contacts), BATCH_SIZE)" whose
\* POST ends with outcome
BatchIteration(outcome) ==
    /\ pc = "up_batch"
    /\ up_i < Len(up_contacts)
    /\ LET batch == BatchAt(up_contacts, up_i)
           batch_num == (up_i \div BATCH_SIZE) + 1
           result == upload_batch(batch, batch_num, TotalBatches(up_contacts),
                                  outcome, stdout_encoding)
       IN  /\ requests' = Append(requests,
                                 [run |-> run, batch_num |-> batch_num,
                                  size |-> Len(batch), outcome |-> outcome])
           /\ store' = IF Applied(outcome) THEN StoreUpsertAll(store, batch) ELSE store
           /\ IF result.raised
              THEN /\ pc' = "up_crashed"
                   /\ UNCHANGED <<up_i, successful, failed, failed_batches>>
              ELSE /\ pc' = pc
                   /\ up_i' = up_i + BATCH_SIZE
                   /\ IF result.success
                      THEN /\ successful' = successful + Len(batch)
                           /\ UNCHANGED <<failed, failed_batches>>
                      ELSE /\ failed' = failed + Len(batch)
                           /\ failed_batches' =
                                  Append(failed_batches, <<batch_num, result.error>>)
                           /\ UNCHANGED successful
    /\ UNCHANGED <<statusVars, mergeVars, tagVars, deriverVars, csvRows, stdout_encoding,
                   up_contacts, run, storeAfterFirst>>

UploadBatch == \E outcome \in Outcomes : BatchIteration(outcome)

\* the loop is exhausted: the summary is printed and main returns
UploadSummary ==
    /\ pc = "up_batch"
    /\ up_i >= Len(up_contacts)
    /\ pc' = "up_done"
    /\ storeAfterFirst' = IF run = "first" THEN store ELSE storeAfterFirst
    /\ UNCHANGED <<statusVars, mergeVars, tagVars, deriverVars, csvRows, stdout_encoding,
                   up_contacts, up_i, successful, failed, failed_batches, requests,
                   store, run>>

NextUpload == LoadCsv \/ UploadBatch \/ UploadSummary

SpecUpload == InitUpload /\ [][NextUpload]_vars

\* the outcomes of a POST when the store is sound and only the connection
\* may fail
RerunOutcomes == { Response(201), Raised(<<"t", "i", "m", "e", "d", " ", "o", "u", "t">>) }

UploadBatchOfRerun == \E outcome \in RerunOutcomes : BatchIteration(outcome)

\* the script is run once more on the same file
RunAgain ==
    /\ pc = "up_done"
    /\ run = "first"
    /\ run' = "second"
    /\ pc' = "up_load"
    /\ UNCHANGED <<statusVars, mergeVars, tagVars, deriverVars, csvRows, stdout_encoding,
                   up_contacts, up_i, successful, failed, failed_batches, requests,
                   store, storeAfterFirst>>

NextRerun == LoadCsv \/ UploadBatchOfRerun \/ UploadSummary \/ RunAgain

\* the uploader run twice on one file
SpecRerun == InitUpload /\ [][NextRerun]_vars

----------------------------------------------------------------------------
(* The tags column: written by write_output, read back by parse_tags *)

\* characters of a tag: a letter, the separator, the quote, a brace
TagChars == {"a", ",", "\"", "}"}

\* the strings a tag can be: source codes, industries and history lines
\* after strip(), so never empty
TagStrings == SeqsUpTo(TagChars, MaxTagLen) \ {<<>>}

\* the tag lists of the claim: not empty, no tag twice
TagLists ==
    { l \in SeqsUpTo(TagStrings, MaxTags) :
          l # <<>> /\ \A j, k \in 1..Len(l) : l[j] = l[k] => j = k }

InitTags ==
    /\ pc = "tags"
    /\ StatusIdle
    /\ MergeIdle
    /\ UploadIdle
    /\ DeriverIdle
    /\ tagList \in TagLists
    /\ tags_column = <<>>
    /\ decoded = <<>>

\* write_output builds the tags column of the record
EncodeTags ==
    /\ pc = "tags"
    /\ tags_column' = TagsStr(tagList)
    /\ pc' = "tags_written"
    /\ UNCHANGED <<statusVars, mergeVars, uploadVars, deriverVars, tagList, decoded>>

\* load_csv hands the column to parse_tags
DecodeTags ==
    /\ pc = "tags_written"
    /\ decoded' = parse_tags(tags_column)
    /\ pc' = "tags_read"
    /\ UNCHANGED <<statusVars, mergeVars, uploadVars, deriverVars, tagList, tags_column>>

NextTags == EncodeTags \/ DecodeTags

SpecTags == InitTags /\ [][NextTags]_vars

----------------------------------------------------------------------------
(* Tag Frequency Deriver: fetch_all_contacts, count_tags, insert_tags, main *)

\* rows per GET
limit == 1000

\* tags per POST
batch_size == 500

\* a row of the contacts table as the GET returns it (select=tags); the
\* column may be null
Stored(tags) == [is_null |-> FALSE, tags |-> tags]

StoredNull == [is_null |-> TRUE, tags |-> <<>>]

StoredContactSet ==
    { Stored(<< <<"x">>, <<"y">> >>),
      Stored(<< <<"x">> >>),
      StoredNull,
      Stored(<< <<"z">>, <<>> >>),
      Stored(<< <<"w">> >>) }

\* the short tables the deriver is run on
ShortTables == SeqsUpTo(StoredContactSet, MaxStoredContacts)

\* the k-th row of a long table: a tag of its own and one all such rows
\* share, or two tags of its own, or a null column
LongTableRow(k) ==
    CASE k % 4 = 0 -> StoredNull
      [] k % 4 = 1 -> Stored(<< <<"t">> \o IntStr(k), <<"u">> \o IntStr(k) >>)
      [] OTHER -> Stored(<< <<"t">> \o IntStr(k), <<"x">> >>)

\* the long tables: one row fewer than, exactly, and one row more than a
\* number of full pages
LongTables ==
    { [k \in 1..(p * limit + d) |-> LongTableRow(k)] :
          p \in 1..MaxFullPages, d \in {-1, 0, 1} }

\* the page the store answers with
PageAt(rows, off) == SubSeq(rows, off + 1, Min(off + limit, Len(rows)))

\* tag_counts[tag] += 1
Bump(counts, tag) ==
    IF \E k \in 1..Len(counts) : counts[k].name = tag
    THEN [k \in 1..Len(counts) |->
             IF counts[k].name = tag
             THEN [name |-> tag, count |-> counts[k].count + 1]
             ELSE counts[k]]
    ELSE Append(counts, [name |-> tag, count |-> 1])

\* the inner loop of count_tags over the tags of one contact
RECURSIVE CountList(_, _)
CountList(counts, tags) ==
    IF tags = <<>> THEN counts
    ELSE CountList(IF Head(tags) # <<>> THEN Bump(counts, Head(tags)) ELSE counts,
                   Tail(tags))

\* a dict given as its (key, value) pairs in insertion order, as the pair
\* of its keys in that order and of the mapping
AsDict(counts) ==
    [order |-> [k \in 1..Len(counts) |-> counts[k].name],
     count |-> [t \in { counts[k].name : k \in 1..Len(counts) } |->
                   counts[CHOOSE k \in 1..Len(counts) : counts[k].name = t].count]]

\* tag_counts after the loop ran over contacts that gave a and then over
\* contacts that gave b: the keys of a keep their places, the new keys of b
\* follow in their order, the counts add up
AddCounts(a, b) ==
    [order |-> a.order \o SelectSeq(b.order, LAMBDA t : t \notin DOMAIN a.count),
     count |-> [t \in DOMAIN a.count \cup DOMAIN b.count |->
                   (IF t \in DOMAIN a.count THEN a.count[t] ELSE 0)
                   + (IF t \in DOMAIN b.count THEN b.count[t] ELSE 0)]]

\* the outer loop of count_tags over contacts[lo..hi], from an empty dict
\* (the range is halved so that the evaluation stays shallow on a page of
\* limit contacts); contact.get('tags') or [] for each contact
RECURSIVE CountRange(_, _, _)
CountRange(cs, lo, hi) ==
    IF lo > hi THEN AsDict(<<>>)
    ELSE IF lo = hi
    THEN AsDict(CountList(<<>>, IF cs[lo].is_null THEN <<>> ELSE cs[lo].tags))
    ELSE LET mid == (lo + hi) \div 2
         IN  AddCounts(CountRange(cs, lo, mid), CountRange(cs, mid + 1, hi))

\* count_tags: the (tag, count) pairs of tag_counts in insertion order
count_tags(cs) ==
    LET d == CountRange(cs, 1, Len(cs))
    IN  [k \in 1..Len(d.order) |-> [name |-> d.order[k], count |-> d.count[d.order[k]]]]

\* tags_data: one dict per tag, in the order of tag_counts
TagsData(counts) ==
    [k \in 1..Len(counts) |->
        [name |-> counts[k].name, client_id |-> ALCONOX_CLIENT_ID,
         contact_count |-> counts[k].count]]

\* on_conflict=name,client_id
TagKey(rec) == <<rec.name, rec.client_id>>

\* the tags table after the upsert of a batch
TagsUpsertAll(table, batch) ==
    UpsertRows(table, [k \in 1..Len(table) |-> TagKey(table[k])],
               batch, [j \in 1..Len(batch) |-> TagKey(batch[j])])

\* how a GET of a page can end: the rows arrive, or urlopen or json.loads
\* raises (nothing in fetch_all_contacts or main catches it)
FetchOutcomes == {"page", "error"}

\* how a POST of a batch can end:
\*   created    urlopen returns (no status is looked at)
\*   http       HTTPError with a body that decodes: insert_tags returns False
\*   http_raw   HTTPError with a body that is not UTF-8: decode() raises
\*   transport  another exception (URLError): nothing catches it
InsertOutcomes == {"created", "http", "http_raw", "transport"}

\* the number of POSTs insert_tags makes when none fails
TagBatches(counts) == (Len(counts) + batch_size - 1) \div batch_size

\* populate_tags_table main() is about to run
InitDeriver ==
    /\ pc = "dv_fetch"
    /\ StatusIdle
    /\ MergeIdle
    /\ UploadIdle
    /\ TagsIdle
    /\ storedContacts \in ShortTables \cup LongTables
    /\ all_contacts = <<>>
    /\ offset = 0
    /\ tag_counts = <<>>
    /\ ins_i = 0
    /\ tagRequests = <<>>
    /\ tagsTable = <<>>

\* one iteration of the "while True" of fetch_all_contacts
FetchPage ==
    /\ pc = "dv_fetch"
    /\ \E outcome \in FetchOutcomes :
        LET data == PageAt(storedContacts, offset)
        IN  IF outcome = "error"
            THEN /\ pc' = "dv_crashed"
                 /\ UNCHANGED <<all_contacts, offset>>
            ELSE IF data = <<>>
            THEN /\ pc' = "dv_count"
                 /\ UNCHANGED <<all_contacts, offset>>
            ELSE /\ all_contacts' = all_contacts \o data
                 /\ offset' = offset + limit
                 /\ pc' = pc
    /\ UNCHANGED <<statusVars, mergeVars, uploadVars, tagVars, storedContacts,
                   tag_counts, ins_i, tagRequests, tagsTable>>

\* tag_counts = count_tags(contacts), and insert_tags builds tags_data
CountTags ==
    /\ pc = "dv_count"
    /\ tag_counts' = count_tags(all_contacts)
    /\ ins_i' = 0
    /\ pc' = "dv_insert"
    /\ UNCHANGED <<statusVars, mergeVars, uploadVars, tagVars, storedContacts,
                   all_contacts, offset, tagRequests, tagsTable>>

\* one iteration of "for i in range(0, len(tags_data), batch_size)"
InsertBatch ==
    /\ pc = "dv_insert"
    /\ ins_i < Len(tag_counts)
    /\ \E outcome \in InsertOutcomes :
        LET tags_data == TagsData(tag_counts)
            batch == SubSeq(tags_data, ins_i + 1, Min(ins_i + batch_size, Len(tags_data)))
        IN  /\ tagRequests' = Append(tagRequests,
                                     [batch_num |-> (ins_i \div batch_size) + 1,
                                      outcome |-> outcome])
            /\ tagsTable' = IF outcome = "created" THEN TagsUpsertAll(tagsTable, batch)
                            ELSE tagsTable
            /\ ins_i' = IF outcome = "created" THEN ins_i + batch_size ELSE ins_i
            /\ pc' = CASE outcome = "created" -> pc
                       [] outcome = "http" -> "dv_failed"
                       [] OTHER -> "dv_crashed"
    /\ UNCHANGED <<statusVars, mergeVars, uploadVars, tagVars, storedContacts,
                   all_contacts, offset, tag_counts>>

\* the loop is exhausted: insert_tags returns True and main prints "Done!"
InsertDone ==
    /\ pc = "dv_insert"
    /\ ins_i >= Len(tag_counts)
    /\ pc' = "dv_done"
    /\ UNCHANGED <<statusVars, mergeVars, uploadVars, tagVars, deriverVars>>

NextDeriver == FetchPage \/ CountTags \/ InsertBatch \/ InsertDone

SpecDeriver == InitDeriver /\ [][NextDeriver]_vars

----------------------------------------------------------------------------
(* Properties of the Status Resolver *)

\* C1: once the stored status of an email is Unsubscribed or Held, no later
\* row of the export changes the value stored for that email.
C1_SuppressedNeverOverwritten ==
    [][\A e \in DOMAIN email_status :
          email_status[e] \in Suppressing =>
              /\ e \in DOMAIN email_status'
              /\ email_status'[e] = email_status[e]]_vars

\* a suppressing status is stored and a later row for the same email, with
\* another status, has been consumed
C1_Witness ==
    \E i \in 1..mcPos : \E j \in (i + 1)..mcPos :
        LET e == NormalizeEmail(mcRows[i].email)
        IN  /\ e # <<>>
            /\ NormalizeEmail(mcRows[j].email) = e
            /\ mcRows[j].email # mcRows[i].email
            /\ Strip(mcRows[i].status) \in Suppressing
            /\ Strip(mcRows[j].status) # Strip(mcRows[i].status)
            /\ email_status[e] = Strip(mcRows[i].status)

Perms(n) == { p \in [1..n -> 1..n] : \A i, j \in 1..n : p[i] = p[j] => i = j }

Permute(rows, p) == [i \in 1..Len(rows) |-> rows[p[i]]]

\* two mappings know the same emails and agree on which are suppressed
SameSuppression(m1, m2) ==
    /\ DOMAIN m1 = DOMAIN m2
    /\ \A e \in DOMAIN m1 : (m1[e] \in Suppressing) <=> (m2[e] \in Suppressing)

\* C2 as stated: every permutation of the rows yields the same final status
\* for every email.
C2_OrderIndependentStatus ==
    pc = "contacts" =>
        \A p \in Perms(Len(mcRows)) :
            LoadStatus(EmptyMap, Permute(mcRows, p)) = email_status

\* C2 amended: every permutation of the rows yields the same set of emails
\* and, for every email, the same answer to "is the final status
\* Unsubscribed or Held"; the status string itself depends on the order.
C2_OrderIndependentSuppression ==
    pc = "contacts" =>
        \A p \in Perms(Len(mcRows)) :
            SameSuppression(LoadStatus(EmptyMap, Permute(mcRows, p)), email_status)

\* the export was read to its end and holds, for one email written in two
\* ways, a suppressing row after a non-suppressing one
C2_Witness ==
    /\ pc = "contacts"
    /\ \E i \in 1..Len(mcRows) : \E j \in (i + 1)..Len(mcRows) :
        /\ NormalizeEmail(mcRows[i].email) = NormalizeEmail(mcRows[j].email)
        /\ NormalizeEmail(mcRows[i].email) # <<>>
        /\ Strip(mcRows[i].status) = S_Active
        /\ Strip(mcRows[j].status) \in Suppressing

----------------------------------------------------------------------------
(* Properties of the Record Merger *)

\* the resolver's final answer for an email
Suppressed(e) == e \in DOMAIN email_status /\ email_status[e] \in Suppressing

\* record r carries the resolver's status of its email
StatusAttached(r) ==
    /\ r.unsubscribed <=> Suppressed(r.email)
    /\ r.email \notin DOMAIN email_status =>
           r.mc_status = S_Unknown /\ ~r.unsubscribed

\* C3: every record of parse_contacts and parse_leads, and every row
\* write_output writes, has unsubscribed true exactly when the resolver's
\* final status of its normalized email is Unsubscribed or Held; an email
\* the resolver does not know gets mc_status Unknown and unsubscribed false;
\* and an email with an Unsubscribed or Held row in the export is written
\* with unsubscribed = true.
C3_UnsubscribedFollowsResolver ==
    /\ \A e \in DOMAIN contacts : StatusAttached(contacts[e])
    /\ \A e \in DOMAIN leads : StatusAttached(leads[e])
    /\ pc = "merged" =>
           \A i \in 1..Len(output) :
               /\ output[i].unsubscribed = "true" <=> Suppressed(output[i].email)
               /\ output[i].unsubscribed \in {"true", "false"}
               /\ \A j \in 1..Len(mcRows) :
                      /\ NormalizeEmail(mcRows[j].email) = output[i].email
                      /\ Strip(mcRows[j].status) \in Suppressing
                      => output[i].unsubscribed = "true"

\* the file is written with a suppressed contact whose export rows disagree
\* (one of them Active), and with a lead the resolver does not know
C3_Witness ==
    /\ pc = "merged"
    /\ \E i, k \in 1..Len(output) :
        /\ output[i].unsubscribed = "true"
        /\ output[i].record_type = "contact"
        /\ \E j \in 1..Len(mcRows) :
               /\ NormalizeEmail(mcRows[j].email) = output[i].email
               /\ Strip(mcRows[j].status) = S_Active
        /\ output[k].unsubscribed = "false"
        /\ output[k].record_type = "lead"
        /\ output[k].email \notin DOMAIN email_status

\* the non-empty normalized emails of the Contact and Lead rows read
EmailsRead ==
    ({ NormalizeEmail(contactRows[i].Email) : i \in 1..Len(contactRows) }
         \cup { NormalizeEmail(leadRows[i].Email) : i \in 1..Len(leadRows) }) \ {<<>>}

\* C4: the written file holds at most one row per normalized email: the
\* emails of its rows are normalized and pairwise different, whatever the
\* case and surrounding whitespace of the rows read, so a Lead row whose
\* email is that of a Contact or of an earlier Lead adds no row: there are
\* as many rows as normalized emails were read.
C4_OneRowPerEmail ==
    pc = "merged" =>
        /\ \A i \in 1..Len(output) : output[i].email = NormalizeEmail(output[i].email)
        /\ \A i, j \in 1..Len(output) : output[i].email = output[j].email => i = j
        /\ { output[i].email : i \in 1..Len(output) } = EmailsRead
        /\ Len(output) = Cardinality(EmailsRead)

\* the file is written after a Lead row matched a Contact, and a later Lead
\* row matched an earlier Lead, each time under another spelling of the email
C4_Witness ==
    /\ pc = "merged"
    /\ \E c \in 1..Len(contactRows) : \E l \in 1..Len(leadRows) :
        /\ NormalizeEmail(contactRows[c].Email) = NormalizeEmail(leadRows[l].Email)
        /\ contactRows[c].Email # leadRows[l].Email
        /\ NormalizeEmail(leadRows[l].Email) # <<>>
    /\ \E l1 \in 1..Len(leadRows) : \E l2 \in (l1 + 1)..Len(leadRows) :
        /\ NormalizeEmail(leadRows[l1].Email) = NormalizeEmail(leadRows[l2].Email)
        /\ leadRows[l1].Email # leadRows[l2].Email
        /\ NormalizeEmail(leadRows[l1].Email) \in DOMAIN leads
    /\ Len(output) = 2

NoEmptyNoDuplicate(tags) ==
    /\ \A i \in 1..Len(tags) : tags[i] # <<>>
    /\ \A i, j \in 1..Len(tags) : tags[i] = tags[j] => i = j

\* C8: the tags of every record hold no empty string and no two equal
\* entries, after any Contact rows and any Lead rows, merges included.
C8_TagsNoEmptyNoDuplicate ==
    /\ \A e \in DOMAIN contacts : NoEmptyNoDuplicate(contacts[e].tags)
    /\ \A e \in DOMAIN leads : NoEmptyNoDuplicate(leads[e].tags)

\* a Lead row was merged into a Contact with which it shares a tag and to
\* which it brings a new one, and a Lead is kept whose row has an empty
\* source code and a history line that reduces to nothing
C8_Witness ==
    \E c \in 1..Len(contactRows) : \E l \in 1..Len(leadRows) :
        LET e == NormalizeEmail(contactRows[c].Email)
        IN  /\ e # <<>>
            /\ NormalizeEmail(leadRows[l].Email) = e
            /\ \E t \in 1..Len(RowTags(leadRows[l])) :
                   InSeq(RowTags(leadRows[l])[t], RowTags(contactRows[c]))
            /\ \E t \in 1..Len(RowTags(leadRows[l])) :
                   ~InSeq(RowTags(leadRows[l])[t], RowTags(contactRows[c]))
            /\ Len(contacts[e].tags) > Len(RowTags(contactRows[c]))
            /\ \E k \in 1..Len(leadRows) :
                   /\ leadRows[k].History = History2
                   /\ Strip(leadRows[k].SourceCode) = <<>>
                   /\ NormalizeEmail(leadRows[k].Email) \in DOMAIN leads

\* the Contact rows read so far that carry the normalized email e
ContactRowsFor(e) ==
    { i \in 1..Len(contactRows) : NormalizeEmail(contactRows[i].Email) = e }

Least(S) == CHOOSE i \in S : \A j \in S : i <= j

Greatest(S) == CHOOSE i \in S : \A j \in S : j <= i

\* parse_contacts keeps exactly one record per non-empty normalized email
OneRecordPerContactEmail ==
    DOMAIN contacts =
        { NormalizeEmail(contactRows[i].Email) : i \in 1..Len(contactRows) } \ {<<>>}

\* C9 as stated: of several Contact rows with one normalized email the first
\* wins: the record is the one built from the first such row.
C9_FirstContactRowWins ==
    pc = "contacts" =>
        /\ OneRecordPerContactEmail
        /\ \A e \in DOMAIN contacts :
               contacts[e] =
                   RowRecord(contactRows[Least(ContactRowsFor(e))], email_status, "contact")

\* C9 amended: of several Contact rows with one normalized email the last
\* wins: parse_contacts keeps one record for the email, built from the last
\* such row alone (its fields and its tags).
C9_LastContactRowWins ==
    pc = "contacts" =>
        /\ OneRecordPerContactEmail
        /\ \A e \in DOMAIN contacts :
               contacts[e] =
                   RowRecord(contactRows[Greatest(ContactRowsFor(e))], email_status, "contact")

\* two Contact rows with one normalized email and different names and tags
\* were read
C9_Witness ==
    /\ pc = "contacts"
    /\ \E i \in 1..Len(contactRows) : \E j \in (i + 1)..Len(contactRows) :
        /\ NormalizeEmail(contactRows[i].Email) = NormalizeEmail(contactRows[j].Email)
        /\ NormalizeEmail(contactRows[i].Email) # <<>>
        /\ Strip(contactRows[i].FirstName) # Strip(contactRows[j].FirstName)
        /\ RowTags(contactRows[i]) # RowTags(contactRows[j])

\* the fields of a record other than its tags
SameButTags(r1, r2) ==
    /\ r1.email = r2.email
    /\ r1.first_name = r2.first_name
    /\ r1.last_name = r2.last_name
    /\ r1.company = r2.company
    /\ r1.source_code = r2.source_code
    /\ r1.industry = r2.industry
    /\ r1.record_type = r2.record_type
    /\ r1.unsubscribed = r2.unsubscribed
    /\ r1.mc_status = r2.mc_status

\* old, then the entries of tags that old lacks, in the order of tags
WithNewTags(old, tags) == old \o SelectSeq(tags, LAMBDA t : ~InSeq(t, old))

\* dict d2 is dict d1 with the tags of the Lead row merged into the record
\* of e and nothing else touched
OnlyTagsMerged(d1, d2, e, row) ==
    /\ DOMAIN d2 = DOMAIN d1
    /\ \A k \in DOMAIN d1 \ {e} : d2[k] = d1[k]
    /\ SameButTags(d2[e], d1[e])
    /\ d2[e].tags = WithNewTags(d1[e].tags, RowTags(row))

\* C11: a step of parse_leads on a row whose email is already that of a
\* Contact, or else of an earlier Lead, changes only the tags of that one
\* record: they become the old tags, in their order, followed by the tags
\* of the row that were not among them, in the row's order; the other
\* fields of the record, every other record and the set of emails of both
\* dicts stay as they were.
C11_LeadMergeChangesOnlyTags ==
    [][ (pc = "leads" /\ Len(leadRows') = Len(leadRows) + 1) =>
          LET row == leadRows'[Len(leadRows')]
              e == NormalizeEmail(row.Email)
          IN  /\ e \in DOMAIN contacts =>
                     /\ OnlyTagsMerged(contacts, contacts', e, row)
                     /\ leads' = leads
              /\ (e \notin DOMAIN contacts /\ e \in DOMAIN leads) =>
                     /\ OnlyTagsMerged(leads, leads', e, row)
                     /\ contacts' = contacts ]_vars

\* the Lead row read last carries the email of an earlier Lead, with
\* another first name and with tags the earlier Lead lacked, and before it
\* a Lead row was merged into a Contact with which it shares one tag and to
\* which it brings others
C11_Witness ==
    /\ pc = "leads"
    /\ Len(leadRows) >= 3
    /\ LET last == leadRows[Len(leadRows)]
           e == NormalizeEmail(last.Email)
       IN  /\ e \in DOMAIN leads
           /\ \E l \in 1..(Len(leadRows) - 1) :
                  /\ NormalizeEmail(leadRows[l].Email) = e
                  /\ Strip(leadRows[l].FirstName) # Strip(last.FirstName)
                  /\ leads[e].first_name = Strip(leadRows[l].FirstName)
                  /\ Len(leads[e].tags) > Len(RowTags(leadRows[l]))
    /\ \E c \in 1..Len(contactRows) : \E l \in 1..Len(leadRows) :
           LET e == NormalizeEmail(contactRows[c].Email)
           IN  /\ e \in DOMAIN contacts
               /\ NormalizeEmail(leadRows[l].Email) = e
               /\ \E t \in 1..Len(RowTags(leadRows[l])) :
                      InSeq(RowTags(leadRows[l])[t], RowTags(contactRows[c]))
               /\ Len(contacts[e].tags) > Len(RowTags(contactRows[c]))
               /\ contacts[e].record_type = "contact"

----------------------------------------------------------------------------
(* Properties of the Batch Synchronizer *)

\* the POSTs of the run in progress, in the order they were made
RunRequests == SelectSeq(requests, LAMBDA r : r.run = run)

\* what upload_batch made of the POST r of the run in progress
ResultOf(r) ==
    upload_batch(BatchAt(up_contacts, (r.batch_num - 1) * BATCH_SIZE), r.batch_num,
                 TotalBatches(up_contacts), r.outcome, stdout_encoding)

RECURSIVE SumSizes(_)
SumSizes(rs) == IF rs = <<>> THEN 0 ELSE Head(rs).size + SumSizes(Tail(rs))

\* (batch_num, error) of the POSTs whose call failed, in order
RECURSIVE FailureList(_)
FailureList(rs) ==
    IF rs = <<>> THEN <<>>
    ELSE IF ResultOf(Head(rs)).success THEN FailureList(Tail(rs))
    ELSE <<<<Head(rs).batch_num, ResultOf(Head(rs)).error>>>> \o FailureList(Tail(rs))

\* C5: when a run of the uploader has ended, every batch was attempted
\* exactly once and in order whatever became of the earlier ones, the
\* failed-batch list holds exactly the batches whose call failed, each with
\* its error text, and the two counters are the summed sizes of the batches
\* that succeeded and of those that failed.
C5_EveryBatchAttemptedAndTallied ==
    pc \in {"up_done", "up_crashed"} =>
        /\ Len(RunRequests) = TotalBatches(up_contacts)
        /\ \A k \in 1..Len(RunRequests) :
               /\ RunRequests[k].batch_num = k
               /\ RunRequests[k].size = Len(BatchAt(up_contacts, (k - 1) * BATCH_SIZE))
        /\ failed_batches = FailureList(RunRequests)
        /\ successful =
               SumSizes(SelectSeq(RunRequests, LAMBDA r : ResultOf(r).success))
        /\ failed =
               SumSizes(SelectSeq(RunRequests, LAMBDA r : ~ResultOf(r).success))

NoDuplicateKeys(table) ==
    Cardinality({ ConflictKey(table[k]) : k \in 1..Len(table) }) = Len(table)

\* C7: when the uploader has run twice on the same file and every POST of
\* both runs succeeded, the table is the one the first run left, it holds
\* no two rows with the same (email, client_id), and it holds every
\* record of the file.
C7_SecondRunChangesNothing ==
    (/\ pc = "up_done"
     /\ run = "second"
     /\ \A k \in 1..Len(requests) : Created(requests[k].outcome))
    => /\ store = storeAfterFirst
       /\ NoDuplicateKeys(store)
       /\ { up_contacts[k] : k \in 1..Len(up_contacts) }
              \subseteq { store[j] : j \in 1..Len(store) }

\* both runs are over, each made of several successful POSTs the last of
\* which was not full, and the table held a row from an earlier import that
\* the file overwrote
C7_Witness ==
    /\ pc = "up_done"
    /\ run = "second"
    /\ \A k \in 1..Len(requests) : Created(requests[k].outcome)
    /\ TotalBatches(up_contacts) >= 2
    /\ Len(up_contacts) % BATCH_SIZE # 0
    /\ Len(requests) = 2 * TotalBatches(up_contacts)
    /\ Len(store) = Len(up_contacts)
    /\ \E k \in 1..Len(up_contacts) : ConflictKey(up_contacts[k]) = ConflictKey(StaleRow)
    /\ \A j \in 1..Len(store) : store[j] # StaleRow

----------------------------------------------------------------------------
(* Properties of the tag encoding *)

\* C6: decoding with parse_tags the text write_output wrote for a tag list
\* (not empty, no tag twice, commas allowed in a tag) yields the list, in
\* its order.
C6_TagsRoundTrip == pc = "tags_read" => decoded = tagList

----------------------------------------------------------------------------
(* Properties of the Tag Frequency Deriver *)

\* C10: a failed page fetch or a failed tag upsert batch neither terminates
\* nor aborts the run: the process does not die of it, and the run ends only
\* after every upsert batch was attempted.
C10_NetworkFailureDoesNotAbort ==
    /\ pc # "dv_crashed"
    /\ pc \in {"dv_done", "dv_failed"} =>
           /\ Len(tagRequests) = TagBatches(tag_counts)
           /\ \A k \in 1..Len(tagRequests) : tagRequests[k].batch_num = k

====
